---- MODULE Spec2Model ----
(***************************************************************************)
(* SongBuddy backend: the document store (users, follow lists, posts,      *)
(* likes) and the request handlers of src/routes, with the discovery feed  *)
(* of GET /api/posts/discovery (candidate selection, engagement score,     *)
(* score sort, top slice, Fisher-Yates shuffle, truncation, pagination).   *)
(*                                                                         *)
(* Numbers.  Scores are JavaScript doubles in the source; the model keeps  *)
(* them in fixed point, in units of 1/Scale.  Hours are integers, so the   *)
(* freshness term (48 - h) / 48 * 3.0 is the exact integer (48 - h) * 625. *)
(* Math.log is a table rounded to 1/Scale.  Math.random() is a draw from   *)
(* RandDraws, a subset of 0 .. Scale-1 (the half-open interval [0, 1)).    *)
(* Every double addition rounds to nearest, ties to even: Fl keeps that in  *)
(* miniature, 1/Scale being the spacing of the doubles in [1, 2) and of the *)
(* random draws, doubled in each binade above.                             *)
(***************************************************************************)
EXTENDS Integers, Sequences, FiniteSets, TLC

VARIABLES users, posts, nextOid, nextPid, now, resp

vars == <<users, posts, nextOid, nextPid, now, resp>>

(***************************************************************************)
(* Bounds of the model                                                     *)
(***************************************************************************)
\* user documents ever created (ObjectIds 1 .. MaxOid)
MaxOid == 3
\* post documents ever created (ObjectIds 1 .. MaxPid)
MaxPid == 2
\* the clock stops at MaxNow hours
MaxNow == 48
\* post documents ever created on the seeded database of SpecFeed
MaxFeedPosts == 7
\* likes of a seeded post of SpecScore
MaxLikes == 2
\* post documents ever created in SpecScore (two of them seeded)
MaxScorePosts == 3
\* the clock of SpecScore stops at MaxScoreNow hours
MaxScoreNow == 72
\* post documents ever created in SpecPool
MaxPoolPosts == 7
\* post documents ever created in SpecRace
MaxRacePosts == 3
\* post documents ever created in SpecHome
MaxHomePosts == 3
\* post documents ever created in SpecLikes
MaxLikePosts == 2
\* post documents ever created in SpecLikeRace
MaxLikeRacePosts == 2
\* post documents ever created in SpecDelete
MaxDeletePosts == 2

(***************************************************************************)
(* Program constants                                                       *)
(***************************************************************************)
Scale == 10000
DefaultLimit == 20
LimitCap == 50
DefaultPage == 1
PoolFactor == 3
TopFactor == 2
RecencyWindow == 48

(***************************************************************************)
(* Input sets                                                              *)
(***************************************************************************)
UserIds == {"a", "b", "c"}
\* hours the clock advances in one step
TickHours == {48}
\* Math.random(): the two ends of [0, 1)
RandDraws == {0, Scale - 1}
\* a numeric query parameter after parseInt: <<>> is NaN, <<n>> the number n
NaN == <<>>
LimitArgs == {<<0 - 1>>, <<0>>, <<1>>, <<51>>}
PageArgs == {<<0>>, <<2>>}
FeedLimitArgs == {NaN, <<1>>, <<3>>}
\* hours the clock of SpecScore advances in one step
ScoreHours == {24}
\* users who like the seeded posts
Likers == <<"u1", "u2", "u3", "u4", "u5">>

(***************************************************************************)
(* Arithmetic helpers                                                      *)
(***************************************************************************)
Min(a, b) == IF a <= b THEN a ELSE b
Max(a, b) == IF a >= b THEN a ELSE b
Abs(a) == IF a < 0 THEN 0 - a ELSE a
Range(s) == {s[i] : i \in 1..Len(s)}

\* parseInt(x) || d : NaN and 0 are falsy
ParseOr(x, d) == IF x = NaN \/ x[1] = 0 THEN d ELSE x[1]

\* Math.ceil(a / b) for integers a >= 0 and b # 0
CeilDiv(a, b) == IF b > 0 THEN (a + b - 1) \div b ELSE 0 - (a \div (0 - b))

\* x rounded to the nearest multiple of q, ties to the even multiple
RoundTo(x, q) ==
  LET d == x \div q
      m == x % q
  IN  IF 2 * m < q THEN d * q
      ELSE IF 2 * m > q THEN (d + 1) * q
      ELSE IF d % 2 = 0 THEN d * q ELSE (d + 1) * q

\* the double nearest to x (round to nearest, ties to even): doubles are
\* spaced 1 unit apart below 2.0, 2 units in [2, 4), 4 in [4, 8), ...
Fl(x) ==
  LET a == Abs(x)
      r == IF a < 2 * Scale THEN a
           ELSE IF a < 4 * Scale THEN RoundTo(a, 2)
           ELSE IF a < 8 * Scale THEN RoundTo(a, 4)
           ELSE IF a < 16 * Scale THEN RoundTo(a, 8)
           ELSE RoundTo(a, 16)
  IN  IF x < 0 THEN 0 - r ELSE r

\* slip: slice(-end), the last entries in place of the first
Slice0FromEnd(s, end) ==
  LET e == IF end < 0 THEN Max(Len(s) + end, 0) ELSE Min(end, Len(s))
  IN  SubSeq(s, Len(s) - e + 1, Len(s))

\* Array.prototype.slice(0, end): a negative end counts from the back
Slice0(s, end) ==
  LET e == IF end < 0 THEN Max(Len(s) + end, 0) ELSE Min(end, Len(s))
  IN  SubSeq(s, 1, e)

\* slip: slice(start + 1), one entry lost
SliceFromSkip(s, start) == SubSeq(s, Min(start + 1, Len(s)) + 1, Len(s))

\* Array.prototype.slice(start) for 0 <= start
SliceFrom(s, start) == SubSeq(s, Min(start, Len(s)) + 1, Len(s))

(***************************************************************************)
(* Store queries                                                           *)
(***************************************************************************)
\* slip: findOne without its filter, any stored user answers
UserByIdAny(id) == DOMAIN users

\* User.findOne({ id }): the ObjectIds of the user documents with that id
\* (the unique index on id leaves at most one)
UserById(id) == {o \in DOMAIN users : users[o].id = id}

\* User.find({ _id: { $in: oids } }).select('id') mapped to user.id
StringIdsOf(oids) == {users[o].id : o \in (Range(oids) \cap DOMAIN users)}

\* slip: $in in place of $nin
NotByAuthorsIn(excluded) == {p \in DOMAIN posts : posts[p].userId \in excluded}

\* Post.find / countDocuments ({ userId: { $nin: excluded } })
NotByAuthors(excluded) == {p \in DOMAIN posts : posts[p].userId \notin excluded}

\* .sort({ createdAt: -1 }): newest first.  The order of posts with equal
\* createdAt is left to the server: dir = 1 is insertion order, dir = -1 the
\* reverse (a backward index scan).
Newer(p, q, dir) ==
  \/ posts[p].createdAt > posts[q].createdAt
  \/ /\ posts[p].createdAt = posts[q].createdAt
     /\ IF dir = 1 THEN p < q ELSE p > q

RECURSIVE SortByCreatedAt(_, _)
SortByCreatedAt(S, dir) ==
  IF S = {} THEN <<>>
  ELSE LET first == CHOOSE p \in S : \A q \in S \ {p} : Newer(p, q, dir)
       IN  <<first>> \o SortByCreatedAt(S \ {first}, dir)

\* .limit(n): the driver sends a negative limit as its absolute value
\* (one batch); limit 0 does not occur (0 || 20)
DbLimit(s, n) == SubSeq(s, 1, Min(Abs(n), Len(s)))

(***************************************************************************)
(* Engagement score (postRoutes.ts, discovery step 4)                      *)
(***************************************************************************)
\* Math.log(f + 1) * 0.5 in units of 1/Scale, rounded
LogHalf(f) ==
  CASE f = 0 -> 0
    [] f = 1 -> (3466 * Scale) \div 10000
    [] f = 2 -> (5493 * Scale) \div 10000
    [] f = 3 -> (6931 * Scale) \div 10000
    [] f = 4 -> (8047 * Scale) \div 10000
    [] OTHER -> (8959 * Scale) \div 10000

\* userMap.get(post.userId)?.followers?.length || 0
UserFollowers(uid) ==
  IF UserById(uid) = {} THEN 0
  ELSE Len(users[CHOOSE o \in UserById(uid) : TRUE].followers)

\* slip: the like term dropped from the score
BaseEngagementNoLikes(p) == 0

\* slip: the like term divided where it is multiplied
BaseEngagementInverse(p) == Scale \div (Len(posts[p].likes) + 1)

\* likes * 1.0 with likes = post.likes?.length || 0
BaseEngagement(p) == Len(posts[p].likes) * Scale
UserPopularity(p) == LogHalf(UserFollowers(posts[p].userId))
HoursSinceCreated(p, t) == t - posts[p].createdAt

\* slip: the recency score without Math.max(0, ...)
FreshnessBonusNoFloor(p, t) ==
  Fl(((RecencyWindow - HoursSinceCreated(p, t)) * 3 * Scale) \div RecencyWindow)

\* Math.max(0, 48 - hours) / 48 * 3.0
FreshnessBonus(p, t) ==
  Fl((Max(0, RecencyWindow - HoursSinceCreated(p, t)) * 3 * Scale) \div RecencyWindow)

\* baseEngagement + userPopularity + freshnessBonus, the sum before the
\* random term is added
NonRandomScore(p, t) ==
  Fl(Fl(BaseEngagement(p) + UserPopularity(p)) + FreshnessBonus(p, t))

\* baseEngagement + userPopularity + freshnessBonus + randomnessFactor,
\* added from left to right
EngagementScore(p, t, r) == Fl(NonRandomScore(p, t) + r)

\* debugInfo of a scored post
DebugInfo(p, t, r) ==
  [likes |-> Len(posts[p].likes),
   userFollowers |-> UserFollowers(posts[p].userId),
   hoursSinceCreated |-> HoursSinceCreated(p, t),
   baseEngagement |-> BaseEngagement(p),
   userPopularity |-> UserPopularity(p),
   freshnessBonus |-> FreshnessBonus(p, t),
   randomnessFactor |-> r]

(***************************************************************************)
(* Result blending (postRoutes.ts, discovery step 5)                       *)
(***************************************************************************)
\* slip: a.engagementScore - b.engagementScore, the lowest score first
RECURSIVE InsertByScoreAscending(_, _)
InsertByScoreAscending(sorted, e) ==
  IF sorted = <<>> THEN <<e>>
  ELSE IF e.engagementScore < Head(sorted).engagementScore
       THEN <<e>> \o sorted
       ELSE <<Head(sorted)>> \o InsertByScoreAscending(Tail(sorted), e)

\* scoredPosts.sort((a, b) => b.engagementScore - a.engagementScore):
\* Array.prototype.sort is stable, equal scores keep their order
RECURSIVE InsertByScore(_, _)
InsertByScore(sorted, e) ==
  IF sorted = <<>> THEN <<e>>
  ELSE IF e.engagementScore > Head(sorted).engagementScore
       THEN <<e>> \o sorted
       ELSE <<Head(sorted)>> \o InsertByScore(Tail(sorted), e)

RECURSIVE SortByScore(_)
SortByScore(s) ==
  IF s = <<>> THEN <<>>
  ELSE InsertByScore(SortByScore(SubSeq(s, 1, Len(s) - 1)), s[Len(s)])

\* slip: Math.floor in place of Math.ceil
TopCountFloor(n) == (3 * n) \div 10

\* Math.ceil(n * 0.3); for 0 <= n < 160 the double product rounds to the
\* same integer as the exact ceil(3n / 10)
TopCount(n) == (3 * n + 9) \div 10

\* slip: the swap without its second assignment
SwapLossy(s, i, j) == [k \in 1..Len(s) |-> IF k = i THEN s[j] ELSE s[k]]

Swap(s, i, j) == [k \in 1..Len(s) |-> IF k = i THEN s[j] ELSE IF k = j THEN s[i] ELSE s[k]]

\* for (let i = len - 1; i > 0; i--) { j = floor(random() * (i + 1)); swap }
\* i is the 0-based index of the source; rs[i] is the draw of iteration i
RECURSIVE ShuffleFrom(_, _, _)
ShuffleFrom(s, i, rs) ==
  IF i <= 0 THEN s
  ELSE LET j == (rs[i] * (i + 1)) \div Scale
       IN  ShuffleFrom(Swap(s, i + 1, j + 1), i - 1, rs)

\* slip: the loop left out, the remainder is appended as sorted
ShuffleNone(s, rs) == s

Shuffle(s, rs) == ShuffleFrom(s, Len(s) - 1, rs)

(***************************************************************************)
(* GET /api/posts/discovery (the handler registered first, line 379)       *)
(***************************************************************************)
LimitNum(limit) == Min(ParseOr(limit, DefaultLimit), LimitCap)
PageNum(page) == Max(ParseOr(page, DefaultPage), 1)

\* slip: the followed users left out of the exclusion list
ExcludeUserIdsViewerOnly(userId) == {userId}

\* [...followingStringIds, userId]
ExcludeUserIds(userId) ==
  LET currentUser == users[CHOOSE o \in UserById(userId) : TRUE]
  IN  StringIdsOf(currentUser.following) \cup {userId}

\* Post.find({ userId: { $nin } }).sort({ createdAt: -1 }).limit(limitNum * 3)
CandidatePosts(userId, limitNum, dir) ==
  DbLimit(SortByCreatedAt(NotByAuthors(ExcludeUserIds(userId)), dir),
          limitNum * PoolFactor)

ScoredPosts(candidatePosts, rs) ==
  [i \in 1..Len(candidatePosts) |->
     [id |-> candidatePosts[i],
      userId |-> posts[candidatePosts[i]].userId,
      engagementScore |-> EngagementScore(candidatePosts[i], now, rs[i])]]

\* slip: the shuffled rest pushed before the top slice
RandomizedPostsTailFirst(topPosts, ss) ==
  LET topCount == TopCount(Len(topPosts))
  IN  Shuffle(SliceFrom(topPosts, topCount), ss) \o Slice0(topPosts, topCount)

\* top slice verbatim, the rest shuffled
RandomizedPosts(topPosts, ss) ==
  LET topCount == TopCount(Len(topPosts))
  IN  Slice0(topPosts, topCount) \o Shuffle(SliceFrom(topPosts, topCount), ss)

\* slip: countDocuments without the filter
TotalCountUnfiltered(excludeUserIds) == Cardinality(DOMAIN posts)

\* Post.countDocuments({ userId: { $nin: excludeUserIds } })
TotalCount(excludeUserIds) == Cardinality(NotByAuthors(excludeUserIds))

\* the store queries of the handler in the order it awaits them: the viewer
\* (397), the followed users (412), the debug sample (421), the candidates
\* (425), the authors (446) and the count (535)
Queries ==
  <<"User.findOne", "User.find", "Post.find", "Post.find", "User.find",
    "Post.countDocuments">>

\* the query that rejects (a store error), 0 when none does
Faults == 0..Len(Queries)
NoFault == {0}

\* step 5, first half: the score sort and the cut to 2 * limitNum; the
\* intermediate values of the request are kept as its trace
SortedStep(userId, limitNum, rs, candidatePosts, scoredPosts, sorted) ==
  LET topPosts == Slice0(sorted, limitNum * TopFactor)
  IN  [queries |-> Queries,
       excludeUserIds |-> ExcludeUserIds(userId),
       candidatePosts |-> candidatePosts,
       debugInfo |-> [i \in 1..Len(candidatePosts) |->
                        DebugInfo(candidatePosts[i], now, rs[i])],
       scoredPosts |-> scoredPosts,
       sorted |-> sorted,
       topPosts |-> topPosts,
       topLen |-> Len(topPosts),
       topCount |-> TopCount(Len(topPosts))]

\* step 4: the scores of the candidates
ScoredStep(userId, limitNum, rs, candidatePosts, scoredPosts) ==
  SortedStep(userId, limitNum, rs, candidatePosts, scoredPosts,
             SortByScore(scoredPosts))

\* steps 1 and 2: the exclusion list and the candidates
CandidateStep(userId, limitNum, rs, candidatePosts) ==
  ScoredStep(userId, limitNum, rs, candidatePosts,
             ScoredPosts(candidatePosts, rs))

\* steps 1 to 5a of the handler, for one order of the store and one draw
\* for each candidate
DiscoveryScored(userId, limit, dir, rs) ==
  CandidateStep(userId, LimitNum(limit), rs,
                CandidatePosts(userId, LimitNum(limit), dir))

\* slip: the computed skip applied to the blended list
DiscoveryPageSkipping(userId, limit, page, scored, ss) ==
  LET limitNum == LimitNum(limit)
      skip == (PageNum(page) - 1) * limitNum
      randomizedPosts == RandomizedPosts(scored.topPosts, ss)
      totalCount == TotalCount(scored.excludeUserIds)
  IN  [op |-> "discovery", status |-> 200,
       message |-> "Discovery posts retrieved successfully",
       req |-> [userId |-> userId, limit |-> limit, page |-> page],
       data |-> Slice0(SliceFrom(randomizedPosts, Max(skip, 0)), limitNum),
       pagination |-> [page |-> PageNum(page), limit |-> limitNum,
                       total |-> totalCount,
                       totalPages |-> CeilDiv(totalCount, limitNum)],
       trace |-> [k \in DOMAIN scored \ {"topPosts"} |-> scored[k]]]

\* steps 5b and 6: the blend, the page, the count and the 200 response; the
\* trace keeps topPosts as the length topLen of that prefix of sorted
DiscoveryPage(userId, limit, page, scored, ss) ==
  LET limitNum == LimitNum(limit)
      randomizedPosts == RandomizedPosts(scored.topPosts, ss)
      totalCount == TotalCount(scored.excludeUserIds)
  IN  [op |-> "discovery", status |-> 200,
       message |-> "Discovery posts retrieved successfully",
       req |-> [userId |-> userId, limit |-> limit, page |-> page],
       data |-> Slice0(randomizedPosts, limitNum),
       pagination |-> [page |-> PageNum(page), limit |-> limitNum,
                       total |-> totalCount,
                       totalPages |-> CeilDiv(totalCount, limitNum)],
       trace |-> [k \in DOMAIN scored \ {"topPosts"} |-> scored[k]]]

\* the 200 response, with the intermediate values of the request in trace
DiscoveryOk(userId, limit, page, dir, rs, ss) ==
  DiscoveryPage(userId, limit, page, DiscoveryScored(userId, limit, dir, rs), ss)

\* the 400, 404 and 500 responses; issued is the number of store queries
\* the handler has sent when it answers
DiscoveryErr(userId, limit, page, status, issued) ==
  [op |-> "discovery", status |-> status,
   message |-> CASE status = 400 -> "User ID is required for discovery feed"
                 [] status = 404 -> "User not found"
                 [] OTHER -> "Error retrieving discovery posts",
   req |-> [userId |-> userId, limit |-> limit, page |-> page],
   trace |-> [queries |-> SubSeq(Queries, 1, issued)]]

\* number of shuffle iterations for n candidates
ShuffleSteps(n, limitNum) ==
  LET m == Len(Slice0([i \in 1..n |-> i], limitNum * TopFactor))
  IN  Max(m - TopCount(m) - 1, 0)

\* the pages a scored request may answer with, one for each outcome of the
\* shuffle
DiscoveryPages(userId, limit, page, scored) ==
  \E ss \in [1..ShuffleSteps(Len(scored.candidatePosts), LimitNum(limit)) -> RandDraws] :
    resp' = DiscoveryPage(userId, limit, page, scored, ss)

\* the answer of the handler: 400 without userId, 500 when a query rejects
\* (the catch block), 404 when the viewer is not stored, else the page
DiscoveryAnswer(viewers, limits, pages, faults) ==
  \E userId \in viewers, limit \in limits, page \in pages, fault \in faults :
    IF userId = ""
    THEN resp' = DiscoveryErr(userId, limit, page, 400, 0)
    ELSE IF fault = 1
    THEN resp' = DiscoveryErr(userId, limit, page, 500, 1)
    ELSE IF UserById(userId) = {}
    THEN resp' = DiscoveryErr(userId, limit, page, 404, 1)
    ELSE IF fault # 0
    THEN resp' = DiscoveryErr(userId, limit, page, 500, fault)
    ELSE LET n == Len(CandidatePosts(userId, LimitNum(limit), 1))
         IN  \E dir \in {1, 0 - 1} :
             \E rs \in [1..n -> RandDraws] :
               DiscoveryPages(userId, limit, page,
                              DiscoveryScored(userId, limit, dir, rs))

\* one scored request under every outcome of its shuffle: blends is the set
\* of the values of randomizedPosts, pages the set of pages the handler may
\* answer with from line 489 on
ShufflePages(userId, limit, scored) ==
  resp' = [op |-> "discoveryShuffles", status |-> 200,
           req |-> [userId |-> userId, limit |-> limit, page |-> <<1>>],
           trace |-> [k \in DOMAIN scored \ {"topPosts"} |-> scored[k]],
           blends |-> {RandomizedPosts(scored.topPosts, ss) :
                         ss \in [1..ShuffleSteps(Len(scored.candidatePosts),
                                                 LimitNum(limit)) -> RandDraws]},
           pages |-> {DiscoveryPage(userId, limit, <<1>>, scored, ss).data :
                        ss \in [1..ShuffleSteps(Len(scored.candidatePosts),
                                                LimitNum(limit)) -> RandDraws]}]

\* the request of a stored viewer, answered once for each outcome of the
\* shuffle on the same store, store order and score draws
DiscoveryShuffles(viewers, limits) ==
  /\ \E userId \in viewers, limit \in limits :
       /\ UserById(userId) # {}
       /\ \E dir \in {1, 0 - 1} :
          \E rs \in [1..Len(CandidatePosts(userId, LimitNum(limit), 1)) -> RandDraws] :
            ShufflePages(userId, limit, DiscoveryScored(userId, limit, dir, rs))
  /\ UNCHANGED <<users, posts, nextOid, nextPid, now>>

\* the same request asked for two page numbers, on the same store and with
\* the same store order, score draws and shuffle draws
TwoPages(userId, limit, page1, page2, scored) ==
  \E ss \in [1..ShuffleSteps(Len(scored.candidatePosts), LimitNum(limit)) -> RandDraws] :
    resp' = [op |-> "discoveryTwoPages", status |-> 200,
             first |-> DiscoveryPage(userId, limit, page1, scored, ss),
             second |-> DiscoveryPage(userId, limit, page2, scored, ss)]

DiscoveryTwoPages(viewers, limits, pages1, pages2) ==
  /\ \E userId \in viewers, limit \in limits, page1 \in pages1, page2 \in pages2 :
       /\ UserById(userId) # {}
       /\ \E dir \in {1, 0 - 1} :
          \E rs \in [1..Len(CandidatePosts(userId, LimitNum(limit), 1)) -> RandDraws] :
            TwoPages(userId, limit, page1, page2,
                     DiscoveryScored(userId, limit, dir, rs))
  /\ UNCHANGED <<users, posts, nextOid, nextPid, now>>

\* slip: Post.deleteMany in place of Post.countDocuments
DiscoveryReqDeleting(viewers, limits, pages, faults) ==
  /\ DiscoveryAnswer(viewers, limits, pages, faults)
  /\ posts' = [p \in DOMAIN posts \ NotByAuthors({resp'.req.userId}) |-> posts[p]]
  /\ UNCHANGED <<users, nextOid, nextPid, now>>

\* the handler reads the store and writes nothing
DiscoveryReq(viewers, limits, pages, faults) ==
  /\ DiscoveryAnswer(viewers, limits, pages, faults)
  /\ UNCHANGED <<users, posts, nextOid, nextPid, now>>

(***************************************************************************)
(* User handlers (userRoutes.ts)                                           *)
(***************************************************************************)
Reply(op, status, message) == [op |-> op, status |-> status, message |-> message]

Pull(s, x) == LET Keep(y) == y # x IN SelectSeq(s, Keep)

\* POST /api/users/save: the unique index on id rejects a second document
SaveUser(ids) ==
  \E id \in ids :
    /\ nextOid <= MaxOid
    /\ IF UserById(id) # {}
       THEN /\ resp' = Reply("saveUser", 500, "Error saving user")
            /\ UNCHANGED <<users, nextOid>>
       ELSE /\ users' = [o \in DOMAIN users \cup {nextOid} |->
                           IF o = nextOid
                           THEN [id |-> id, following |-> <<>>,
                                 followers |-> <<>>, posts |-> <<>>]
                           ELSE users[o]]
            /\ nextOid' = nextOid + 1
            /\ resp' = Reply("saveUser", 200, "User saved successfully!")
    /\ UNCHANGED <<posts, nextPid, now>>

\* slip: the cascade left out, only the user document is deleted
DeleteUserOnly(ids) ==
  \E id \in ids :
    IF UserById(id) = {}
    THEN /\ resp' = Reply("deleteUser", 404, "User not found")
         /\ UNCHANGED <<users, posts, nextOid, nextPid, now>>
    ELSE LET d == CHOOSE o \in UserById(id) : TRUE
         IN  /\ users' = [o \in DOMAIN users \ {d} |-> users[o]]
             /\ resp' = Reply("deleteUser", 200, "User deleted successfully")
             /\ UNCHANGED <<posts, nextOid, nextPid, now>>

\* DELETE /api/users/:id: findOneAndDelete, then the cascade
DeleteUser(ids) ==
  \E id \in ids :
    IF UserById(id) = {}
    THEN /\ resp' = Reply("deleteUser", 404, "User not found")
         /\ UNCHANGED <<users, posts, nextOid, nextPid, now>>
    ELSE LET d == CHOOSE o \in UserById(id) : TRUE
         IN  /\ posts' = [p \in {q \in DOMAIN posts : posts[q].userId # id} |-> posts[p]]
             /\ users' = [o \in DOMAIN users \ {d} |->
                            [users[o] EXCEPT !.following = Pull(@, d),
                                             !.followers = Pull(@, d)]]
             /\ resp' = Reply("deleteUser", 200, "User deleted successfully")
             /\ UNCHANGED <<nextOid, nextPid, now>>

\* the response of POST /api/users/:id/follow, with the ids of the request
FollowReply(status, message, followerId, targetUserId) ==
  [op |-> "follow", status |-> status, message |-> message,
   req |-> [followerId |-> followerId, targetUserId |-> targetUserId]]

\* slip: targetUser.followers.push left out
FollowUserOneSided(followers, targets) ==
  \E followerId \in followers, targetUserId \in targets :
    IF followerId = ""
    THEN /\ resp' = FollowReply(400, "Follower ID is required", followerId, targetUserId)
         /\ UNCHANGED <<users, posts, nextOid, nextPid, now>>
    ELSE IF followerId = targetUserId
    THEN /\ resp' = FollowReply(400, "Cannot follow yourself", followerId, targetUserId)
         /\ UNCHANGED <<users, posts, nextOid, nextPid, now>>
    ELSE IF UserById(followerId) = {} \/ UserById(targetUserId) = {}
    THEN /\ resp' = FollowReply(404, "User not found", followerId, targetUserId)
         /\ UNCHANGED <<users, posts, nextOid, nextPid, now>>
    ELSE LET f == CHOOSE o \in UserById(followerId) : TRUE
             t == CHOOSE o \in UserById(targetUserId) : TRUE
         IN  IF t \in Range(users[f].following)
             THEN /\ resp' = FollowReply(400, "Already following this user", followerId, targetUserId)
                  /\ UNCHANGED <<users, posts, nextOid, nextPid, now>>
             ELSE /\ users' = [users EXCEPT ![f].following = Append(@, t)]
                  /\ resp' = FollowReply(200, "User followed successfully", followerId, targetUserId)
                  /\ UNCHANGED <<posts, nextOid, nextPid, now>>

\* slip: the includes() check left out
FollowUserUnchecked(followers, targets) ==
  \E followerId \in followers, targetUserId \in targets :
    IF followerId = ""
    THEN /\ resp' = FollowReply(400, "Follower ID is required", followerId, targetUserId)
         /\ UNCHANGED <<users, posts, nextOid, nextPid, now>>
    ELSE IF followerId = targetUserId
    THEN /\ resp' = FollowReply(400, "Cannot follow yourself", followerId, targetUserId)
         /\ UNCHANGED <<users, posts, nextOid, nextPid, now>>
    ELSE IF UserById(followerId) = {} \/ UserById(targetUserId) = {}
    THEN /\ resp' = FollowReply(404, "User not found", followerId, targetUserId)
         /\ UNCHANGED <<users, posts, nextOid, nextPid, now>>
    ELSE LET f == CHOOSE o \in UserById(followerId) : TRUE
             t == CHOOSE o \in UserById(targetUserId) : TRUE
         IN  IF FALSE
             THEN /\ resp' = FollowReply(400, "Already following this user", followerId, targetUserId)
                  /\ UNCHANGED <<users, posts, nextOid, nextPid, now>>
             ELSE /\ users' = [users EXCEPT ![f].following = Append(@, t),
                                            ![t].followers = Append(@, f)]
                  /\ resp' = FollowReply(200, "User followed successfully", followerId, targetUserId)
                  /\ UNCHANGED <<posts, nextOid, nextPid, now>>

\* POST /api/users/:id/follow
FollowUser(followers, targets) ==
  \E followerId \in followers, targetUserId \in targets :
    IF followerId = ""
    THEN /\ resp' = FollowReply(400, "Follower ID is required", followerId, targetUserId)
         /\ UNCHANGED <<users, posts, nextOid, nextPid, now>>
    ELSE IF followerId = targetUserId
    THEN /\ resp' = FollowReply(400, "Cannot follow yourself", followerId, targetUserId)
         /\ UNCHANGED <<users, posts, nextOid, nextPid, now>>
    ELSE IF UserById(followerId) = {} \/ UserById(targetUserId) = {}
    THEN /\ resp' = FollowReply(404, "User not found", followerId, targetUserId)
         /\ UNCHANGED <<users, posts, nextOid, nextPid, now>>
    ELSE LET f == CHOOSE o \in UserById(followerId) : TRUE
             t == CHOOSE o \in UserById(targetUserId) : TRUE
         IN  IF t \in Range(users[f].following)
             THEN /\ resp' = FollowReply(400, "Already following this user", followerId, targetUserId)
                  /\ UNCHANGED <<users, posts, nextOid, nextPid, now>>
             ELSE /\ users' = [users EXCEPT ![f].following = Append(@, t),
                                            ![t].followers = Append(@, f)]
                  /\ resp' = FollowReply(200, "User followed successfully", followerId, targetUserId)
                  /\ UNCHANGED <<posts, nextOid, nextPid, now>>

\* DELETE /api/users/:id/follow
UnfollowUser(followers, targets) ==
  \E followerId \in followers, targetUserId \in targets :
    IF followerId = ""
    THEN /\ resp' = Reply("unfollow", 400, "Follower ID is required")
         /\ UNCHANGED <<users, posts, nextOid, nextPid, now>>
    ELSE IF UserById(followerId) = {} \/ UserById(targetUserId) = {}
    THEN /\ resp' = Reply("unfollow", 404, "User not found")
         /\ UNCHANGED <<users, posts, nextOid, nextPid, now>>
    ELSE LET f == CHOOSE o \in UserById(followerId) : TRUE
             t == CHOOSE o \in UserById(targetUserId) : TRUE
         IN  /\ users' = [users EXCEPT ![f].following = Pull(@, t),
                                       ![t].followers = Pull(@, f)]
             /\ resp' = Reply("unfollow", 200, "User unfollowed successfully")
             /\ UNCHANGED <<posts, nextOid, nextPid, now>>

(***************************************************************************)
(* Post handlers (postRoutes.ts)                                           *)
(***************************************************************************)
\* POST /api/posts/create: the author is not looked up before the save;
\* maxPid caps the number of posts ever created
CreatePost(authors, likeCounts, maxPid) ==
  \E userId \in authors, likeCount \in likeCounts :
    /\ nextPid <= maxPid
    /\ posts' = [p \in DOMAIN posts \cup {nextPid} |->
                   IF p = nextPid
                   THEN [userId |-> userId, createdAt |-> now,
                         likes |-> <<>>, likeCount |-> likeCount]
                   ELSE posts[p]]
    /\ users' = [o \in DOMAIN users |->
                   IF users[o].id = userId
                   THEN [users[o] EXCEPT !.posts = Append(@, nextPid)]
                   ELSE users[o]]
    /\ nextPid' = nextPid + 1
    /\ resp' = Reply("createPost", 201, "Post created successfully")
    /\ UNCHANGED <<nextOid, now>>

\* POST /api/posts/:postId/like
LikePost(postIds, likers) ==
  \E postId \in postIds, userId \in likers :
    IF userId = ""
    THEN /\ resp' = Reply("like", 400, "User ID is required")
         /\ UNCHANGED <<users, posts, nextOid, nextPid, now>>
    ELSE IF postId \notin DOMAIN posts
    THEN /\ resp' = Reply("like", 404, "Post not found")
         /\ UNCHANGED <<users, posts, nextOid, nextPid, now>>
    ELSE IF userId \in Range(posts[postId].likes)
    THEN /\ resp' = Reply("like", 400, "Post already liked")
         /\ UNCHANGED <<users, posts, nextOid, nextPid, now>>
    ELSE LET likes == Append(posts[postId].likes, userId)
         IN  /\ posts' = [posts EXCEPT ![postId].likes = likes,
                                       ![postId].likeCount = Len(likes)]
             /\ resp' = Reply("like", 200, "Post liked successfully")
             /\ UNCHANGED <<users, nextOid, nextPid, now>>

\* DELETE /api/posts/:postId/like
UnlikePost(postIds, likers) ==
  \E postId \in postIds, userId \in likers :
    IF userId = ""
    THEN /\ resp' = Reply("unlike", 400, "User ID is required")
         /\ UNCHANGED <<users, posts, nextOid, nextPid, now>>
    ELSE IF postId \notin DOMAIN posts
    THEN /\ resp' = Reply("unlike", 404, "Post not found")
         /\ UNCHANGED <<users, posts, nextOid, nextPid, now>>
    ELSE LET likes == Pull(posts[postId].likes, userId)
         IN  /\ posts' = [posts EXCEPT ![postId].likes = likes,
                                       ![postId].likeCount = Len(likes)]
             /\ resp' = Reply("unlike", 200, "Post unliked successfully")
             /\ UNCHANGED <<users, nextOid, nextPid, now>>

\* the response of DELETE /api/posts/:postId, with the ids of the request
DeletePostReply(status, message, postId, userId) ==
  [op |-> "deletePost", status |-> status, message |-> message,
   req |-> [postId |-> postId, userId |-> userId]]

\* slip: Post.findOne({ _id: postId }) without the userId
DeletePostAnyUser(postIds, owners) ==
  \E postId \in postIds, userId \in owners :
    IF userId = ""
    THEN /\ resp' = DeletePostReply(400, "User ID is required", postId, userId)
         /\ UNCHANGED <<users, posts, nextOid, nextPid, now>>
    ELSE IF postId \notin DOMAIN posts
    THEN /\ resp' = DeletePostReply(404, "Post not found or not owned by user", postId, userId)
         /\ UNCHANGED <<users, posts, nextOid, nextPid, now>>
    ELSE /\ posts' = [p \in DOMAIN posts \ {postId} |-> posts[p]]
         /\ users' = [o \in DOMAIN users |->
                        IF users[o].id = userId
                        THEN [users[o] EXCEPT !.posts = Pull(@, postId)]
                        ELSE users[o]]
         /\ resp' = DeletePostReply(200, "Post deleted successfully", postId, userId)
         /\ UNCHANGED <<nextOid, nextPid, now>>

\* DELETE /api/posts/:postId
DeletePost(postIds, owners) ==
  \E postId \in postIds, userId \in owners :
    IF userId = ""
    THEN /\ resp' = DeletePostReply(400, "User ID is required", postId, userId)
         /\ UNCHANGED <<users, posts, nextOid, nextPid, now>>
    ELSE IF postId \notin DOMAIN posts \/ posts[postId].userId # userId
    THEN /\ resp' = DeletePostReply(404, "Post not found or not owned by user", postId, userId)
         /\ UNCHANGED <<users, posts, nextOid, nextPid, now>>
    ELSE /\ posts' = [p \in DOMAIN posts \ {postId} |-> posts[p]]
         /\ users' = [o \in DOMAIN users |->
                        IF users[o].id = userId
                        THEN [users[o] EXCEPT !.posts = Pull(@, postId)]
                        ELSE users[o]]
         /\ resp' = DeletePostReply(200, "Post deleted successfully", postId, userId)
         /\ UNCHANGED <<nextOid, nextPid, now>>

\* slip: $nin in place of $in, the posts of everyone not followed
HomePostsNotFollowed(followingIds, dir) ==
  SortByCreatedAt({p \in DOMAIN posts : posts[p].userId \notin followingIds}, dir)

\* Post.find({ userId: { $in: followingIds } }).sort({ createdAt: -1 })
HomePosts(followingIds, dir) ==
  SortByCreatedAt({p \in DOMAIN posts : posts[p].userId \in followingIds}, dir)

\* the 200 response of GET /api/posts/feed/:userId: .skip(skip).limit(limit)
\* of the posts of the followed users, total being the length of the page;
\* nothing is read when the user follows nobody
HomeFeedOk(userId, limit, page, dir) ==
  LET user == users[CHOOSE o \in UserById(userId) : TRUE]
      pageNum == ParseOr(page, DefaultPage)
      limitNum == ParseOr(limit, DefaultLimit)
      skip == (pageNum - 1) * limitNum
      found == IF user.following = <<>> THEN <<>>
               ELSE DbLimit(SliceFrom(HomePosts(StringIdsOf(user.following), dir), skip),
                            limitNum)
  IN  [op |-> "feed", status |-> 200, message |-> "Feed retrieved successfully",
       req |-> [userId |-> userId, limit |-> limit, page |-> page],
       data |-> [i \in 1..Len(found) |->
                   [id |-> found[i], userId |-> posts[found[i]].userId]],
       pagination |-> [page |-> pageNum, limit |-> limitNum, total |-> Len(found)]]

\* GET /api/posts/feed/:userId, for pages from 1 on
HomeFeed(viewers, limits, pages) ==
  /\ \E userId \in viewers, limit \in limits, page \in pages :
       IF UserById(userId) = {}
       THEN resp' = [op |-> "feed", status |-> 404, message |-> "User not found",
                     req |-> [userId |-> userId, limit |-> limit, page |-> page]]
       ELSE \E dir \in {1, 0 - 1} : resp' = HomeFeedOk(userId, limit, page, dir)
  /\ UNCHANGED <<users, posts, nextOid, nextPid, now>>

\* the feed of a scored discovery request, every outcome of the shuffle
HomeAndPages(home, userId, limit, scored) ==
  \E ss \in [1..ShuffleSteps(Len(scored.candidatePosts), LimitNum(limit)) -> RandDraws] :
    resp' = [op |-> "homeAndDiscovery", status |-> 200,
             home |-> home,
             discovery |-> DiscoveryPage(userId, limit, <<1>>, scored, ss)]

\* GET /feed/:userId and GET /discovery of the same viewer on the same store
HomeAndDiscovery(viewers, limits) ==
  /\ \E userId \in viewers, limit \in limits :
       /\ UserById(userId) # {}
       /\ \E d1 \in {1, 0 - 1}, d2 \in {1, 0 - 1} :
          \E rs \in [1..Len(CandidatePosts(userId, LimitNum(limit), 1)) -> RandDraws] :
            HomeAndPages(HomeFeedOk(userId, limit, <<1>>, d1), userId, limit,
                         DiscoveryScored(userId, limit, d2, rs))
  /\ UNCHANGED <<users, posts, nextOid, nextPid, now>>

\* Date.now() moves on between requests, by one of hours, up to maxNow
Elapse(hours, maxNow) ==
  \E h \in hours :
    /\ now + h <= maxNow
    /\ now' = now + h
    /\ UNCHANGED <<users, posts, nextOid, nextPid, resp>>

Tick == Elapse(TickHours, MaxNow)

(***************************************************************************)
(* The server.  resp is the response of the request being answered; a      *)
(* request is taken up when the previous response has been sent.           *)
(***************************************************************************)
NoResp == [op |-> "none", status |-> 0]

Idle == resp = NoResp

\* res.json(...): the response leaves the server
SendResponse ==
  /\ resp # NoResp
  /\ resp' = NoResp
  /\ UNCHANGED <<users, posts, nextOid, nextPid, now>>

\* an empty database
Init ==
  /\ users = <<>>
  /\ posts = <<>>
  /\ nextOid = 1
  /\ nextPid = 1
  /\ now = 0
  /\ resp = NoResp

\* GET /discovery by viewer "a" or without userId: every limit on page 2,
\* every page with limit 1
Discovery ==
  \/ DiscoveryReq({"a", ""}, LimitArgs, {<<2>>}, NoFault)
  \/ DiscoveryReq({"a"}, {<<1>>}, PageArgs, NoFault)

Next ==
  \/ Idle /\ SaveUser({"a", "b"})
  \/ Idle /\ DeleteUser({"a", "b"})
  \/ Idle /\ FollowUser({"a", "b"}, {"a", "b"})
  \/ Idle /\ UnfollowUser({"a", "b"}, {"a", "b"})
  \/ Idle /\ CreatePost(UserIds, {0}, MaxPid)
  \/ Idle /\ DeletePost(1..MaxPid, UserIds)
  \/ Idle /\ Discovery
  \/ SendResponse

Spec == Init /\ [][Next]_vars

(***************************************************************************)
(* SpecFeed: the discovery feed on a seeded database (the seed scripts     *)
(* save the users first).  Viewer "a" and author "b" exist, nobody follows *)
(* anybody; posts of "a" (excluded) and "b" (eligible) are created, the    *)
(* first post is liked and unliked, and "a" asks for the feed.             *)
(***************************************************************************)
FeedInit ==
  /\ users = [o \in {1, 2} |->
                [id |-> IF o = 1 THEN "a" ELSE "b", following |-> <<>>,
                 followers |-> <<>>, posts |-> <<>>]]
  /\ posts = <<>>
  /\ nextOid = 3
  /\ nextPid = 1
  /\ now = 0
  /\ resp = NoResp

FeedDiscovery == DiscoveryReq({"a"}, FeedLimitArgs, {<<1>>}, NoFault)

\* the second of two requests, after the first has been answered with first
DiscoverySecond(userId, limit, first, n, m) ==
  \E d2 \in {1, 0 - 1} :
  \E r2 \in [1..n -> RandDraws] :
  \E s2 \in [1..m -> RandDraws] :
    resp' = [op |-> "discoveryTwice", status |-> 200,
             first |-> first,
             second |-> DiscoveryOk(userId, limit, <<1>>, d2, r2, s2)]

\* two requests of the same viewer with the same limit, one after the other
\* on the same store, each with its own random draws; made where the
\* eligible posts fit in one page
DiscoveryTwice(viewers, limits) ==
  /\ \E userId \in viewers, limit \in limits :
       /\ UserById(userId) # {}
       /\ Cardinality(NotByAuthors(ExcludeUserIds(userId))) <= LimitNum(limit)
       /\ LET n == Len(CandidatePosts(userId, LimitNum(limit), 1))
              m == ShuffleSteps(n, LimitNum(limit))
          IN  \E d1 \in {1, 0 - 1} :
              \E r1 \in [1..n -> RandDraws] :
              \E s1 \in [1..m -> RandDraws] :
                DiscoverySecond(userId, limit,
                                DiscoveryOk(userId, limit, <<1>>, d1, r1, s1), n, m)
  /\ UNCHANGED <<users, posts, nextOid, nextPid, now>>

FeedNext ==
  \/ Idle /\ CreatePost({"a", "b"}, {0}, MaxFeedPosts)
  \/ Idle /\ LikePost({1}, {"a"})
  \/ Idle /\ UnlikePost({1}, {"a"})
  \/ Idle /\ FeedDiscovery
  \/ Idle /\ DiscoveryTwice({"a"}, {<<3>>})
  \/ SendResponse

SpecFeed == FeedInit /\ [][FeedNext]_vars

(***************************************************************************)
(* SpecScenario: a viewer who follows nobody and ten posts of one author,  *)
(* all created now, one of them (the newest, a middle one or the oldest)   *)
(* liked by five users; the viewer asks for a page of five.                *)
(***************************************************************************)
ScenarioInit ==
  /\ users = [o \in {1, 2} |->
                [id |-> IF o = 1 THEN "a" ELSE "b", following |-> <<>>,
                 followers |-> <<>>,
                 posts |-> IF o = 1 THEN <<>> ELSE [i \in 1..10 |-> i]]]
  /\ \E k \in {1, 5, 10} :
       posts = [p \in 1..10 |->
                  [userId |-> "b", createdAt |-> 0,
                   likes |-> IF p = k THEN <<"u1", "u2", "u3", "u4", "u5">> ELSE <<>>,
                   likeCount |-> IF p = k THEN 5 ELSE 0]]
  /\ nextOid = 3
  /\ nextPid = 11
  /\ now = 0
  /\ resp = NoResp

ScenarioDiscovery == DiscoveryReq({"a"}, {<<5>>}, {<<1>>}, NoFault)

ScenarioNext ==
  \/ Idle /\ ScenarioDiscovery
  \/ SendResponse

SpecScenario == ScenarioInit /\ [][ScenarioNext]_vars

(***************************************************************************)
(* SpecScore: the engagement score on a seeded database.  Users "a" (the   *)
(* viewer), "b" and "c" are stored; two posts created at hour 0 are seeded,*)
(* the first by "b", the second by "b" or by "d" (an author without a user *)
(* document), each with 0 .. MaxLikes likes.  Then "c" may follow "b", a   *)
(* later post may be                                                       *)
(* created, the clock moves on in steps of a day, and the feed is asked    *)
(* for by "a", by the unknown "z" or without userId, with any one of the   *)
(* store queries failing.                                                  *)
(***************************************************************************)
ScoreInit ==
  /\ \E a1 \in {"b"}, a2 \in {"b", "d"}, k1 \in 0..MaxLikes, k2 \in 0..MaxLikes :
       /\ posts = [p \in 1..2 |->
                     [userId |-> IF p = 1 THEN a1 ELSE a2, createdAt |-> 0,
                      likes |-> SubSeq(Likers, 1, IF p = 1 THEN k1 ELSE k2),
                      likeCount |-> IF p = 1 THEN k1 ELSE k2]]
       /\ users = [o \in 1..3 |->
                     [id |-> <<"a", "b", "c">>[o], following |-> <<>>,
                      followers |-> <<>>,
                      posts |-> IF o # 2 THEN <<>>
                                ELSE SelectSeq(<<1, 2>>,
                                       LAMBDA p : <<a1, a2>>[p] = "b")]]
  /\ nextOid = 4
  /\ nextPid = 3
  /\ now = 0
  /\ resp = NoResp

ScoreDiscovery == DiscoveryReq({"a", "z", ""}, {NaN}, {<<1>>}, Faults)

ScoreNext ==
  \/ Idle /\ FollowUser({"c"}, {"b"})
  \/ Idle /\ CreatePost({"b", "d"}, {0}, MaxScorePosts)
  \/ Idle /\ Elapse(ScoreHours, MaxScoreNow)
  \/ Idle /\ ScoreDiscovery
  \/ SendResponse

SpecScore == ScoreInit /\ [][ScoreNext]_vars

(***************************************************************************)
(* Properties of the discovery feed                                        *)
(***************************************************************************)
IsFeed == resp.op = "discovery" /\ resp.status = 200

IdsOf(s) == [i \in 1..Len(s) |-> s[i].id]

\* the ids of the users in the following list of the stored user document
FollowedIds(userId) ==
  {users[o].id : o \in {f \in DOMAIN users :
                          \E v \in UserById(userId) : f \in Range(users[v].following)}}

\* the stored posts whose author is neither the viewer nor followed by the viewer
EligiblePosts(userId) ==
  {p \in DOMAIN posts : /\ posts[p].userId # userId
                        /\ posts[p].userId \notin FollowedIds(userId)}

\* ceil(3n / 10) and ceil(a / b), by their defining inequalities
CeilThreeTenths(n) == CHOOSE k \in 0..Max(n, 0) : 10 * k >= 3 * n /\ 10 * (k - 1) < 3 * n
CeilOfRatio(a, b) ==
  CHOOSE k \in (0 - a)..a :
    IF b > 0 THEN k * b >= a /\ (k - 1) * b < a
             ELSE k * b <= a /\ (k - 1) * b > a

\* C1: no post of a returned page is written by the viewer or by a user of
\* the viewer's following list
C1_NoPostOfViewerOrFollowed ==
  IsFeed =>
    \A i \in 1..Len(resp.data) :
      /\ resp.data[i].userId # resp.req.userId
      /\ resp.data[i].userId \notin FollowedIds(resp.req.userId)

\* C1 witness: a page with a post while a followed author has a post too
C1_Witness ==
  /\ IsFeed
  /\ Len(resp.data) >= 1
  /\ \E p \in DOMAIN posts : posts[p].userId \in FollowedIds(resp.req.userId)

\* C2: the page has at most min(limit, total) posts, total being the number
\* of eligible posts
C2_PageAtMostMinLimitTotal ==
  IsFeed =>
    Len(resp.data) <= Min(resp.pagination.limit,
                          Cardinality(EligiblePosts(resp.req.userId)))

\* C3: with n <= limit scored candidates, the first ceil(0.3 n) posts of the
\* page are the highest-scored candidates in descending score order
C3_TopSliceVerbatim ==
  IsFeed /\ Len(resp.trace.scoredPosts) <= resp.pagination.limit =>
    LET n == Len(resp.trace.scoredPosts)
        k == CeilThreeTenths(n)
    IN  /\ Len(resp.data) >= k
        /\ \A i \in 1..k :
             /\ i < k => resp.data[i].engagementScore >= resp.data[i + 1].engagementScore
             /\ \E c \in 1..n : resp.trace.scoredPosts[c] = resp.data[i]
        /\ \A i, j \in 1..k : i # j => resp.data[i].id # resp.data[j].id
        /\ \A c \in 1..n :
             (\A i \in 1..k : resp.data[i].id # resp.trace.scoredPosts[c].id)
               => \A i \in 1..k : resp.trace.scoredPosts[c].engagementScore
                                    <= resp.data[i].engagementScore

\* C3 witness: four or more candidates fit in the page, the top slice has
\* two posts or more and the shuffle has moved a post behind it
C3_Witness ==
  /\ IsFeed
  /\ Len(resp.trace.scoredPosts) >= 4
  /\ Len(resp.trace.scoredPosts) <= resp.pagination.limit
  /\ IdsOf(resp.data) # IdsOf(resp.trace.sorted)
  /\ resp.trace.scoredPosts # resp.trace.sorted

\* C4 as stated: a truncated page begins with the first
\* min(limit, ceil(0.3 n)) entries of the score-sorted list of all n candidates
C4_TopOfAllCandidates ==
  IsFeed /\ Len(resp.trace.scoredPosts) > resp.pagination.limit =>
    LET k == Min(resp.pagination.limit, CeilThreeTenths(Len(resp.trace.scoredPosts)))
    IN  /\ Len(resp.data) >= k
        /\ \A i \in 1..k : resp.data[i] = resp.trace.sorted[i]

\* C4 amended: a truncated page begins with the first
\* min(limit, ceil(0.3 m)) entries of the score-sorted list, m = min(n, 2 limit)
\* being the number of sorted entries kept for blending
C4_TopOfKeptCandidates ==
  IsFeed /\ Len(resp.trace.scoredPosts) > resp.pagination.limit =>
    LET m == Min(Len(resp.trace.scoredPosts), 2 * resp.pagination.limit)
        k == Min(resp.pagination.limit, CeilThreeTenths(m))
    IN  /\ Len(resp.data) >= k
        /\ \A i \in 1..k : resp.data[i] = resp.trace.sorted[i]

\* C4 witness: seven candidates, limit 3, and the third post of the page is
\* not the third of the sorted list
C4_Witness ==
  /\ IsFeed
  /\ Len(resp.trace.scoredPosts) = 7
  /\ resp.pagination.limit = 3
  /\ Len(resp.data) = 3
  /\ resp.data[3] # resp.trace.sorted[3]
  /\ resp.data[2] = resp.trace.sorted[2]

\* C5: with limit >= 1 and an eligible post, the first post of the page has
\* the maximal score of the scored candidates
C5_FirstIsMaximal ==
  IsFeed /\ resp.pagination.limit >= 1
         /\ EligiblePosts(resp.req.userId) # {} =>
    /\ Len(resp.data) >= 1
    /\ \A c \in 1..Len(resp.trace.scoredPosts) :
         resp.data[1].engagementScore >= resp.trace.scoredPosts[c].engagementScore

\* C5 witness: the first post of the page is not the newest candidate
C5_Witness ==
  /\ IsFeed
  /\ Len(resp.trace.scoredPosts) >= 3
  /\ resp.data[1].id # resp.trace.candidatePosts[1]
  /\ \E c \in 1..Len(resp.trace.scoredPosts) :
       resp.trace.scoredPosts[c].engagementScore < resp.data[1].engagementScore

\* C6: two runs on the same store, viewer and limit with n <= limit eligible
\* posts, differing in their random draws, return the same set of posts
C6_SameSetAcrossDraws ==
  resp.op = "discoveryTwice" =>
    Range(IdsOf(resp.first.data)) = Range(IdsOf(resp.second.data))

\* C6 witness: two runs whose scores and page orders differ
C6_Witness ==
  /\ resp.op = "discoveryTwice"
  /\ Len(resp.first.data) = 3
  /\ IdsOf(resp.first.data) # IdsOf(resp.second.data)
  /\ resp.first.trace.scoredPosts # resp.second.trace.scoredPosts

\* C7: with n <= limit eligible posts the page has length n and holds every
\* eligible post exactly once; with limit 20 and 3 eligible posts the top
\* slice is the one highest-scored post and the other two follow it
C7_AllEligibleReturnedOnce ==
  IsFeed /\ Cardinality(EligiblePosts(resp.req.userId)) <= resp.pagination.limit =>
    LET eligible == EligiblePosts(resp.req.userId)
    IN  /\ Len(resp.data) = Cardinality(eligible)
        /\ \A p \in eligible :
             Cardinality({i \in 1..Len(resp.data) : resp.data[i].id = p}) = 1
        /\ resp.pagination.limit = 20 /\ Cardinality(eligible) = 3 =>
             /\ resp.trace.topCount = 1
             /\ resp.data[1] = resp.trace.sorted[1]
             /\ {resp.data[2], resp.data[3]}
                  = {resp.trace.sorted[2], resp.trace.sorted[3]}

\* C7 witness: limit 20, three eligible posts, and the two posts behind the
\* top slice swapped by the shuffle
C7_Witness ==
  /\ IsFeed
  /\ resp.pagination.limit = 20
  /\ Cardinality(EligiblePosts(resp.req.userId)) = 3
  /\ Len(resp.data) = 3
  /\ resp.data[2] = resp.trace.sorted[3]
  /\ resp.data[3] = resp.trace.sorted[2]

\* the post of the scenario with five likes
FiveLikes == CHOOSE p \in DOMAIN posts : Len(posts[p].likes) = 5

\* the part of the scenario both readings of C8 share: a page of five that
\* holds the post with five likes inside the top slice, the other four
\* being four different posts among the other nine
C8_Page(topSize) ==
  /\ resp.trace.topCount = topSize
  /\ Len(resp.data) = 5
  /\ \E i \in 1..topSize :
       /\ resp.data[i].id = FiveLikes
       /\ resp.data[i] = resp.trace.sorted[i]
       /\ Cardinality({resp.data[j].id : j \in (1..5) \ {i}}
                        \cap (DOMAIN posts \ {FiveLikes})) = 4

\* C8 as stated: in the scenario the top slice has size 2
C8_TopSliceOfTwo == IsFeed => C8_Page(2)

\* C8 amended: in the scenario the top slice has size 3 = ceil(0.3 * 10)
C8_TopSliceOfThree == IsFeed => C8_Page(3)

\* C8 witness: the post with five likes drew 0, another post drew the
\* largest random term, and the post with five likes is still first
C8_Witness ==
  /\ IsFeed
  /\ resp.data[1].id = FiveLikes
  /\ resp.data[1].engagementScore = 5 * Scale + 3 * Scale
  /\ \E c \in 1..10 :
       resp.trace.scoredPosts[c].engagementScore = Fl(3 * Scale + Scale - 1)

\* C9: when every stored post is by the viewer or by a followed author, the
\* request of an existing viewer succeeds with no data and total 0
C9_EmptyWhenAllExcluded ==
  /\ resp.op = "discovery"
  /\ resp.req.userId # ""
  /\ UserById(resp.req.userId) # {}
  /\ EligiblePosts(resp.req.userId) = {}
  => /\ resp.status = 200
     /\ resp.data = <<>>
     /\ resp.pagination.total = 0

\* C9 witness: the viewer follows the only other author, who has a post
C9_Witness ==
  /\ IsFeed
  /\ resp.data = <<>>
  /\ \E p \in DOMAIN posts :
       /\ posts[p].userId # resp.req.userId
       /\ posts[p].userId \in FollowedIds(resp.req.userId)

\* C10: pagination.total is the number of stored posts whose author is not
\* excluded, whatever the limit and the candidate cap, and totalPages is
\* ceil(total / limit)
C10_TotalCountsAllEligible ==
  IsFeed =>
    /\ resp.pagination.total = Cardinality(EligiblePosts(resp.req.userId))
    /\ resp.pagination.totalPages
         = CeilOfRatio(resp.pagination.total, resp.pagination.limit)

\* C10 witness: more eligible posts than the candidate cap 3 * limit lets
\* in, next to posts that are excluded
C10_Witness ==
  /\ IsFeed
  /\ resp.pagination.total > 3 * resp.pagination.limit
  /\ Len(resp.trace.candidatePosts) < resp.pagination.total
  /\ Len(resp.data) < Len(resp.trace.candidatePosts)
  /\ Cardinality(DOMAIN posts) > resp.pagination.total
  /\ resp.pagination.totalPages > 1

(***************************************************************************)
(* SpecPool: the candidate pool and the blend.  The viewer "a" and the     *)
(* author "b" are stored; "b" creates up to MaxPoolPosts posts and the     *)
(* clock may move on by TickHours between them.  The viewer asks for a page *)
(* of one post or with limit -1, for pages of one, two and three posts     *)
(* under every outcome of the shuffle, and for page 1 and another page     *)
(* number of the same feed.                                                *)
(***************************************************************************)
PoolLimitArgs == {<<0 - 1>>, <<1>>}
PoolShuffleArgs == {<<1>>, <<2>>, <<3>>}
PoolPageArgs == {NaN, <<0>>, <<2>>, <<3>>}

PoolInit ==
  /\ users = [o \in {1, 2} |->
                [id |-> IF o = 1 THEN "a" ELSE "b", following |-> <<>>,
                 followers |-> <<>>, posts |-> <<>>]]
  /\ posts = <<>>
  /\ nextOid = 3
  /\ nextPid = 1
  /\ now = 0
  /\ resp = NoResp

PoolDiscovery == DiscoveryReq({"a"}, PoolLimitArgs, {<<1>>}, NoFault)

PoolNext ==
  \/ Idle /\ CreatePost({"b"}, {0}, MaxPoolPosts)
  \/ Idle /\ Tick
  \/ Idle /\ PoolDiscovery
  \/ Idle /\ DiscoveryShuffles({"a"}, PoolShuffleArgs)
  \/ Idle /\ DiscoveryTwoPages({"a"}, {<<1>>, <<2>>}, {<<1>>}, PoolPageArgs)
  \/ SendResponse

SpecPool == PoolInit /\ [][PoolNext]_vars

(***************************************************************************)
(* SpecRace: a discovery request and the write of another request.  The    *)
(* handler awaits each of its queries, so another request may be handled   *)
(* between its candidate query (line 425) and its count (line 535).  The   *)
(* viewer "a" and the author "b" are stored; "b" creates and deletes       *)
(* posts, and the viewer asks for the feed, alone or with a created or     *)
(* deleted post of "b" committed between the two queries.                  *)
(***************************************************************************)
\* the store writes of another request, POST /create (lines 617-624) or
\* DELETE /:postId (lines 1147-1153), committed while the discovery request
\* awaits
RacingWrite(authors, maxPid) ==
  \/ \E userId \in authors :
       /\ nextPid <= maxPid
       /\ posts' = [p \in DOMAIN posts \cup {nextPid} |->
                      IF p = nextPid
                      THEN [userId |-> userId, createdAt |-> now,
                            likes |-> <<>>, likeCount |-> 0]
                      ELSE posts[p]]
       /\ users' = [o \in DOMAIN users |->
                      IF users[o].id = userId
                      THEN [users[o] EXCEPT !.posts = Append(@, nextPid)]
                      ELSE users[o]]
       /\ nextPid' = nextPid + 1
  \/ \E postId \in DOMAIN posts :
       /\ posts[postId].userId \in authors
       /\ posts' = [p \in DOMAIN posts \ {postId} |-> posts[p]]
       /\ users' = [o \in DOMAIN users |->
                      IF users[o].id = posts[postId].userId
                      THEN [users[o] EXCEPT !.posts = Pull(@, postId)]
                      ELSE users[o]]
       /\ nextPid' = nextPid

\* the response of a request whose count is taken after the write: first is
\* the response computed on the store the candidates were read from
RacingPage(first, totalCount) ==
  [first EXCEPT !.op = "discoveryRacing",
                !.pagination.total = totalCount,
                !.pagination.totalPages = CeilDiv(totalCount, first.pagination.limit)]

\* GET /discovery with the write of another request between the candidate
\* query and countDocuments
DiscoveryRacing(viewers, limits, authors, maxPid) ==
  \E userId \in viewers, limit \in limits :
    /\ UserById(userId) # {}
    /\ RacingWrite(authors, maxPid)
    /\ \E dir \in {1, 0 - 1} :
       \E rs \in [1..Len(CandidatePosts(userId, LimitNum(limit), 1)) -> RandDraws] :
       \E ss \in [1..ShuffleSteps(Len(CandidatePosts(userId, LimitNum(limit), 1)),
                                  LimitNum(limit)) -> RandDraws] :
         resp' = RacingPage(DiscoveryOk(userId, limit, <<1>>, dir, rs, ss),
                            TotalCount(ExcludeUserIds(userId))')
    /\ UNCHANGED <<nextOid, now>>

RaceInit ==
  /\ users = [o \in {1, 2} |->
                [id |-> IF o = 1 THEN "a" ELSE "b", following |-> <<>>,
                 followers |-> <<>>, posts |-> <<>>]]
  /\ posts = <<>>
  /\ nextOid = 3
  /\ nextPid = 1
  /\ now = 0
  /\ resp = NoResp

RaceDiscovery == DiscoveryReq({"a"}, {<<2>>}, {<<1>>}, NoFault)

RaceNext ==
  \/ Idle /\ CreatePost({"b"}, {0}, MaxRacePosts)
  \/ Idle /\ DeletePost(1..MaxRacePosts, {"b"})
  \/ Idle /\ RaceDiscovery
  \/ Idle /\ DiscoveryRacing({"a"}, {<<2>>}, {"b"}, MaxRacePosts)
  \/ SendResponse

SpecRace == RaceInit /\ [][RaceNext]_vars

(***************************************************************************)
(* SpecHome: the home feed and the discovery feed.  The viewer "a" and the *)
(* authors "b" and "c" are stored; "a" follows and unfollows them, all     *)
(* three create posts, and "a" asks for the home feed, alone or together   *)
(* with the discovery feed.                                                *)
(***************************************************************************)
HomeLimitArgs == {NaN, <<1>>}
HomePageArgs == {NaN, <<2>>}

HomeInit ==
  /\ users = [o \in 1..3 |->
                [id |-> <<"a", "b", "c">>[o], following |-> <<>>,
                 followers |-> <<>>, posts |-> <<>>]]
  /\ posts = <<>>
  /\ nextOid = 4
  /\ nextPid = 1
  /\ now = 0
  /\ resp = NoResp

HomeNext ==
  \/ Idle /\ FollowUser({"a"}, {"b", "c"})
  \/ Idle /\ UnfollowUser({"a"}, {"b", "c"})
  \/ Idle /\ CreatePost({"a", "b", "c"}, {0}, MaxHomePosts)
  \/ Idle /\ HomeFeed({"a", "z"}, HomeLimitArgs, HomePageArgs)
  \/ Idle /\ HomeAndDiscovery({"a"}, HomeLimitArgs)
  \/ SendResponse

SpecHome == HomeInit /\ [][HomeNext]_vars

(***************************************************************************)
(* SpecLikes: posts and their likes.  Users "a" and "b" are stored; "b"    *)
(* creates posts, the request body carrying no likeCount or likeCount 5,   *)
(* and "a" and "b" like and unlike them, one request at a time.            *)
(***************************************************************************)
LikeCountArgs == {0, 5}

LikesInit ==
  /\ users = [o \in {1, 2} |->
                [id |-> IF o = 1 THEN "a" ELSE "b", following |-> <<>>,
                 followers |-> <<>>, posts |-> <<>>]]
  /\ posts = <<>>
  /\ nextOid = 3
  /\ nextPid = 1
  /\ now = 0
  /\ resp = NoResp

LikesNext ==
  \/ Idle /\ CreatePost({"b"}, LikeCountArgs, MaxLikePosts)
  \/ Idle /\ LikePost(1..MaxLikePosts, {"a", "b", ""})
  \/ Idle /\ UnlikePost(1..MaxLikePosts, {"a", "b", ""})
  \/ SendResponse

SpecLikes == LikesInit /\ [][LikesNext]_vars

(***************************************************************************)
(* SpecLikeRace: two like requests of one user for one post, handled       *)
(* concurrently.  The handler awaits Post.findOne (line 906) and           *)
(* post.save (line 926); what lies between the two, the includes check,    *)
(* the push and the count, runs without interruption on the request's own  *)
(* copy of the document.  While the two requests run, resp holds both:     *)
(* where each of them stands (pc), its copy of the document and its        *)
(* response.                                                               *)
(***************************************************************************)
\* a like request that has arrived and has not read the post yet
LikeArrived(postId, userId) ==
  [pc |-> "find", postId |-> postId, userId |-> userId,
   likes |-> <<>>, likeCount |-> 0, status |-> 0, message |-> ""]

\* two POST /:postId/like requests of the same user for the same post arrive
LikeTwiceStart(postIds, likers) ==
  /\ \E postId \in postIds, userId \in likers :
       /\ postId \in DOMAIN posts
       /\ resp' = [op |-> "likeTwice", status |-> 0,
                   before |-> posts[postId],
                   reqs |-> [i \in {1, 2} |-> LikeArrived(postId, userId)]]
  /\ UNCHANGED <<users, posts, nextOid, nextPid, now>>

\* lines 906-925 of request i: Post.findOne, the includes check, the push
\* and the count on the copy
LikeFind(i) ==
  /\ resp.op = "likeTwice"
  /\ resp.reqs[i].pc = "find"
  /\ LET r == resp.reqs[i]
         post == posts[r.postId]
     IN  resp' = [resp EXCEPT !.reqs[i] =
                    IF r.userId \in Range(post.likes)
                    THEN [r EXCEPT !.pc = "done", !.status = 400,
                                   !.message = "Post already liked"]
                    ELSE [r EXCEPT !.pc = "save",
                                   !.likes = Append(post.likes, r.userId),
                                   !.likeCount = Len(post.likes) + 1]]
  /\ UNCHANGED <<users, posts, nextOid, nextPid, now>>

\* line 926 of request i, post.save(): the pushed entry is sent as $push and
\* the count as $set, and the response is 200
LikeSave(i) ==
  /\ resp.op = "likeTwice"
  /\ resp.reqs[i].pc = "save"
  /\ LET r == resp.reqs[i]
     IN  /\ posts' = [posts EXCEPT ![r.postId].likes = Append(@, r.userId),
                                   ![r.postId].likeCount = r.likeCount]
         /\ resp' = [resp EXCEPT !.reqs[i] =
                       [r EXCEPT !.pc = "done", !.status = 200,
                                 !.message = "Post liked successfully"]]
  /\ UNCHANGED <<users, nextOid, nextPid, now>>

\* both requests have been answered
LikeTwiceDone ==
  resp.op = "likeTwice" => \A i \in {1, 2} : resp.reqs[i].pc = "done"

LikeRaceInit ==
  /\ users = [o \in {1, 2} |->
                [id |-> IF o = 1 THEN "a" ELSE "b", following |-> <<>>,
                 followers |-> <<>>, posts |-> <<>>]]
  /\ posts = <<>>
  /\ nextOid = 3
  /\ nextPid = 1
  /\ now = 0
  /\ resp = NoResp

LikeRaceNext ==
  \/ Idle /\ CreatePost({"b"}, {0}, MaxLikeRacePosts)
  \/ Idle /\ UnlikePost(1..MaxLikeRacePosts, {"a", "b"})
  \/ Idle /\ LikeTwiceStart(1..MaxLikeRacePosts, {"a", "b"})
  \/ LikeFind(1)
  \/ LikeFind(2)
  \/ LikeSave(1)
  \/ LikeSave(2)
  \/ LikeTwiceDone /\ SendResponse

SpecLikeRace == LikeRaceInit /\ [][LikeRaceNext]_vars

(***************************************************************************)
(* Deleting posts: two users create and like posts, and delete-post        *)
(* requests name the author, the other user or no user                     *)
(***************************************************************************)
DeleteInit ==
  /\ users = (1 :> [id |-> "a", following |-> <<>>, followers |-> <<>>, posts |-> <<>>])
           @@ (2 :> [id |-> "b", following |-> <<>>, followers |-> <<>>, posts |-> <<>>])
  /\ posts = <<>>
  /\ nextOid = 3
  /\ nextPid = 1
  /\ now = 0
  /\ resp = NoResp

DeleteNext ==
  \/ Idle /\ CreatePost({"a", "b"}, {0}, MaxDeletePosts)
  \/ Idle /\ LikePost(1..MaxDeletePosts, {"a", "b"})
  \/ Idle /\ DeletePost(1..MaxDeletePosts, {"a", "b", ""})
  \/ SendResponse

SpecDelete == DeleteInit /\ [][DeleteNext]_vars

(***************************************************************************)
(* Error handling and frame of the discovery feed                          *)
(***************************************************************************)
\* a numeric query parameter that parses to zero or to a negative number
NonPositive(x) == x # NaN /\ x[1] <= 0

\* a user document with that id is stored
ViewerStored(userId) == \E o \in DOMAIN users : users[o].id = userId

C12_UnknownViewerNotFound ==
  /\ resp.op = "discovery"
  /\ resp.req.userId # ""
  /\ ~ViewerStored(resp.req.userId)
  => /\ resp.status = 404
     /\ resp.message = "User not found"
     /\ resp.trace.queries = <<"User.findOne">>
     /\ DOMAIN resp.trace = {"queries"}
     /\ DOMAIN resp \cap {"data", "pagination"} = {}

\* C12 witness: the viewer is not stored while another user and a post are
C12_Witness ==
  /\ resp.op = "discovery"
  /\ resp.status = 404
  /\ DOMAIN users # {}
  /\ DOMAIN posts # {}

\* C13: a discovery request is not failed by its author (follower count)
\* lookup, and a candidate whose author has no user document is scored with
\* popularity 0
C13_PopularityLookupNeverFails ==
  resp.op = "discovery" =>
    /\ ~(resp.status = 500 /\ Len(resp.trace.queries) = 5)
    /\ IsFeed =>
         \A i \in 1..Len(resp.trace.candidatePosts) :
           ~ViewerStored(resp.trace.scoredPosts[i].userId)
             => /\ resp.trace.debugInfo[i].userFollowers = 0
                /\ resp.trace.debugInfo[i].userPopularity = 0

\* the half of C13 the handler keeps: on a returned page, a candidate whose
\* author has no user document has popularity 0, next to a candidate whose
\* author has a follower and a popularity above 0
C13_NoRecordScoredZero ==
  IsFeed =>
    \A i \in 1..Len(resp.trace.candidatePosts) :
      ~ViewerStored(resp.trace.scoredPosts[i].userId)
        => resp.trace.debugInfo[i].userPopularity = 0

\* C14: a discovery request, answered with a page or with an error, leaves
\* the stored users, follow lists, posts and likes as they were
C14_DiscoveryReadsOnly ==
  [][resp'.op = "discovery" /\ resp.op # "discovery"
       => UNCHANGED <<users, posts, nextOid, nextPid>>]_vars

\* C14 witness: a request has been answered with a page of posts on a store
\* with a follow edge and likes
C14_Witness ==
  /\ IsFeed
  /\ Len(resp.data) >= 2
  /\ \E o \in DOMAIN users : users[o].followers # <<>>
  /\ \E p \in DOMAIN posts : posts[p].likes # <<>>

\* C15: of two candidates of one request with the same follower count, the
\* same age and the same random draw, the one with one like more has a score
\* at least as high
C15_ScoreMonotoneInLikes ==
  IsFeed =>
    \A i, j \in 1..Len(resp.trace.candidatePosts) :
      LET x == resp.trace.debugInfo[i]
          y == resp.trace.debugInfo[j]
      IN  /\ x.userFollowers = y.userFollowers
          /\ x.hoursSinceCreated = y.hoursSinceCreated
          /\ x.randomnessFactor = y.randomnessFactor
          /\ y.likes = x.likes + 1
          => resp.trace.scoredPosts[j].engagementScore
               >= resp.trace.scoredPosts[i].engagementScore

\* C15 witness: two candidates of an author with a follower, a day old, with
\* the same draw and with 1 and 2 likes
C15_Witness ==
  /\ IsFeed
  /\ \E i, j \in 1..Len(resp.trace.candidatePosts) :
       LET x == resp.trace.debugInfo[i]
           y == resp.trace.debugInfo[j]
       IN  /\ x.userFollowers = 1 /\ y.userFollowers = 1
           /\ x.hoursSinceCreated = 24 /\ y.hoursSinceCreated = 24
           /\ x.randomnessFactor = y.randomnessFactor
           /\ x.likes = 1 /\ y.likes = 2
           /\ resp.trace.scoredPosts[j].engagementScore
                > resp.trace.scoredPosts[i].engagementScore

\* C16: a candidate that is 48 hours old or older has freshness term 0
C16_NoFreshnessAfterWindow ==
  IsFeed =>
    \A i \in 1..Len(resp.trace.candidatePosts) :
      resp.trace.debugInfo[i].hoursSinceCreated >= 48
        => resp.trace.debugInfo[i].freshnessBonus = 0

\* C16 witness: a candidate 72 hours old with freshness 0 next to a
\* candidate a day old with a freshness above 0
C16_Witness ==
  /\ IsFeed
  /\ \E i, j \in 1..Len(resp.trace.candidatePosts) :
       /\ resp.trace.debugInfo[i].hoursSinceCreated = 72
       /\ resp.trace.debugInfo[i].freshnessBonus = 0
       /\ resp.trace.debugInfo[j].hoursSinceCreated = 24
       /\ resp.trace.debugInfo[j].freshnessBonus > 0

\* the non-random part of a score as the handler adds it up
NonRandomOf(d) == Fl(Fl(d.baseEngagement + d.userPopularity) + d.freshnessBonus)

\* the place of the post with that id in a list of scored posts
PlaceIn(s, id) == CHOOSE i \in 1..Len(s) : s[i].id = id

\* C17 as stated: a candidate whose non-random part is higher by 1.0 or more
\* stands before the other in the score-sorted list, whatever the draws
C17_GapBeatsRandomness ==
  IsFeed =>
    \A i, j \in 1..Len(resp.trace.candidatePosts) :
      NonRandomOf(resp.trace.debugInfo[i]) - NonRandomOf(resp.trace.debugInfo[j]) >= Scale
        => PlaceIn(resp.trace.sorted, resp.trace.candidatePosts[i])
             < PlaceIn(resp.trace.sorted, resp.trace.candidatePosts[j])

\* C17 amended: a candidate whose non-random part is higher by 1.0 or more
\* never has the lower score; it stands before the other in the sorted list
\* unless the two scores are equal after rounding, and then the two stand in
\* the order of the candidate query
C17_GapNeverOutscored ==
  IsFeed =>
    \A i, j \in 1..Len(resp.trace.candidatePosts) :
      NonRandomOf(resp.trace.debugInfo[i]) - NonRandomOf(resp.trace.debugInfo[j]) >= Scale
        => /\ resp.trace.scoredPosts[i].engagementScore
                >= resp.trace.scoredPosts[j].engagementScore
           /\ \/ PlaceIn(resp.trace.sorted, resp.trace.candidatePosts[i])
                   < PlaceIn(resp.trace.sorted, resp.trace.candidatePosts[j])
              \/ /\ resp.trace.scoredPosts[i].engagementScore
                       = resp.trace.scoredPosts[j].engagementScore
                 /\ j < i

\* C17 witness: two candidates a gap of 1.0 apart, the lower one with the
\* largest draw and the higher one with draw 0: their scores are equal and
\* the lower one, fetched first, stands first; a third candidate with a
\* higher score has moved before both
C17_Witness ==
  /\ IsFeed
  /\ Len(resp.trace.candidatePosts) = 3
  /\ \E i, j \in 1..Len(resp.trace.candidatePosts) :
       /\ NonRandomOf(resp.trace.debugInfo[i]) - NonRandomOf(resp.trace.debugInfo[j]) = Scale
       /\ resp.trace.debugInfo[i].randomnessFactor = 0
       /\ resp.trace.debugInfo[j].randomnessFactor = Scale - 1
       /\ resp.trace.scoredPosts[i].engagementScore
            = resp.trace.scoredPosts[j].engagementScore
       /\ PlaceIn(resp.trace.sorted, resp.trace.candidatePosts[j])
            < PlaceIn(resp.trace.sorted, resp.trace.candidatePosts[i])
  /\ resp.trace.sorted[1].id = resp.trace.candidatePosts[3]

(***************************************************************************)
(* The shuffled remainder and the candidate pool                           *)
(***************************************************************************)
IsShuffles == resp.op = "discoveryShuffles"

\* the set of the ids of the posts of a page
PageIds(page) == {page[i].id : i \in 1..Len(page)}

\* C18 as stated: when there are more candidates than limit, every candidate
\* outside the verbatim top slice is in the page for some outcome of the
\* shuffle
C18_EveryOtherCandidateMayAppear ==
  IsShuffles /\ Len(resp.trace.candidatePosts) > LimitNum(resp.req.limit) =>
    \A k \in (resp.trace.topCount + 1)..Len(resp.trace.sorted) :
      \E page \in resp.pages : resp.trace.sorted[k].id \in PageIds(page)

\* C18 amended: when there are more candidates than limit and the top slice
\* is shorter than limit, every candidate among the first 2 x limit of the
\* sorted list and outside the top slice is in the page for some outcome of
\* the shuffle
C18_EveryKeptCandidateMayAppear ==
  /\ IsShuffles
  /\ Len(resp.trace.candidatePosts) > LimitNum(resp.req.limit)
  /\ resp.trace.topCount < LimitNum(resp.req.limit)
  => \A k \in (resp.trace.topCount + 1)..resp.trace.topLen :
       \E page \in resp.pages : resp.trace.sorted[k].id \in PageIds(page)

\* C18 witness: seven candidates and limit 3: six are kept, two of them as the
\* top slice; the four others share one place of the page, and each of them
\* has it for some outcome of the shuffle
C18_Witness ==
  /\ IsShuffles
  /\ LimitNum(resp.req.limit) = 3
  /\ Len(resp.trace.candidatePosts) = 7
  /\ resp.trace.topLen = 6
  /\ resp.trace.topCount = 2
  /\ \A k \in 3..6 : \E page \in resp.pages : page[3].id = resp.trace.sorted[k].id
  /\ \A page \in resp.pages : resp.trace.sorted[7].id \notin PageIds(page)

\* the candidates of the answered request are the newest eligible posts,
\* cap of them when there are more than cap
PoolIsNewest(cap) ==
  LET eligible == EligiblePosts(resp.req.userId)
      pool == {resp.trace.candidatePosts[i] : i \in 1..Len(resp.trace.candidatePosts)}
  IN  /\ Len(resp.trace.candidatePosts) = Min(Cardinality(eligible), cap)
      /\ Cardinality(pool) = Len(resp.trace.candidatePosts)
      /\ pool \subseteq eligible
      /\ \A p \in pool, q \in eligible \ pool :
           posts[q].createdAt <= posts[p].createdAt

\* C19 as stated: the candidate pool is exactly the min(E, 3 x limit) most
\* recently created of the E eligible posts, none newer than a pooled post
\* left out
C19_PoolIsNewestEligible ==
  IsFeed => PoolIsNewest(PoolFactor * resp.pagination.limit)

\* C19 for the limits that are positive: there the pool is the
\* min(E, 3 x limit) newest eligible posts
C19_PoolIsNewestForPositiveLimit ==
  (IsFeed \/ IsShuffles) /\ LimitNum(resp.req.limit) >= 1
    => PoolIsNewest(PoolFactor * LimitNum(resp.req.limit))

\* C20 as stated: in the score-sorted list, candidates with equal
\* engagementScore stand by createdAt descending and, for equal createdAt,
\* by post id ascending
C20_TiesByCreatedAtThenId ==
  IsFeed =>
    \A i, j \in 1..Len(resp.trace.sorted) :
      /\ i < j
      /\ resp.trace.sorted[i].engagementScore = resp.trace.sorted[j].engagementScore
      => \/ posts[resp.trace.sorted[i].id].createdAt > posts[resp.trace.sorted[j].id].createdAt
         \/ /\ posts[resp.trace.sorted[i].id].createdAt = posts[resp.trace.sorted[j].id].createdAt
            /\ resp.trace.sorted[i].id < resp.trace.sorted[j].id

\* C20, the part the stable sort gives: candidates with equal
\* engagementScore stand in the order of the candidate query, the newer
\* first
C20_TiesKeepFetchOrder ==
  IsFeed =>
    \A i, j \in 1..Len(resp.trace.sorted) :
      /\ i < j
      /\ resp.trace.sorted[i].engagementScore = resp.trace.sorted[j].engagementScore
      => /\ posts[resp.trace.sorted[i].id].createdAt >= posts[resp.trace.sorted[j].id].createdAt
         /\ PlaceIn(resp.trace.scoredPosts, resp.trace.sorted[i].id)
              < PlaceIn(resp.trace.scoredPosts, resp.trace.sorted[j].id)

(***************************************************************************)
(* The blended list                                                        *)
(***************************************************************************)
\* no post id stands twice in a list of scored posts
NoPostTwice(s) == \A i, j \in 1..Len(s) : s[i].id = s[j].id => i = j

\* C21: no post is twice in a returned page, and the blended list (top slice
\* followed by the shuffled remainder) is a permutation of the sorted
\* candidates kept for blending
C21_BlendIsPermutation ==
  /\ IsFeed => NoPostTwice(resp.data)
  /\ IsShuffles =>
       /\ \A page \in resp.pages : NoPostTwice(page)
       /\ \A blend \in resp.blends :
            /\ Len(blend) = resp.trace.topLen
            /\ NoPostTwice(blend)
            /\ PageIds(blend) = PageIds(SubSeq(resp.trace.sorted, 1, resp.trace.topLen))

\* C21 witness: six posts kept for blending, four of them shuffled, and more
\* than one blended list for the same scored candidates
C21_Witness ==
  /\ IsShuffles
  /\ resp.trace.topLen = 6
  /\ resp.trace.topCount = 2
  /\ Cardinality(resp.blends) > 1
  /\ \E blend \in resp.blends : blend # SubSeq(resp.trace.sorted, 1, 6)

(***************************************************************************)
(* The page parameter                                                      *)
(***************************************************************************)
IsTwoPages == resp.op = "discoveryTwoPages"

\* C22: requests for two page numbers, the store, the viewer, the limit and
\* the draws being the same, have the same candidate pool (the 3 x limit
\* newest eligible posts, from the newest on), the same page and the same
\* total; only the page number echoed in the pagination block differs
C22_PageOnlyEchoed ==
  IsTwoPages =>
    LET eligible == EligiblePosts(resp.first.req.userId)
        pool == Range(resp.first.trace.candidatePosts)
    IN  /\ resp.second.trace = resp.first.trace
        /\ resp.second.data = resp.first.data
        /\ resp.second.pagination =
             [resp.first.pagination EXCEPT !.page = resp.second.pagination.page]
        /\ resp.second.pagination.page = PageNum(resp.second.req.page)
        /\ Cardinality(pool)
             = Min(Cardinality(eligible), PoolFactor * resp.first.pagination.limit)
        /\ pool \subseteq eligible
        /\ \A p \in pool, q \in eligible \ pool :
             posts[q].createdAt <= posts[p].createdAt

\* C22 witness: seven eligible posts and limit 2, page 1 and page 3 asked
\* for: a third page of two posts exists by the pagination block, and both
\* requests answer with the same two posts
C22_Witness ==
  /\ IsTwoPages
  /\ resp.first.pagination.limit = 2
  /\ resp.first.pagination.total = 7
  /\ resp.first.pagination.page = 1
  /\ resp.second.pagination.page = 3
  /\ resp.second.pagination.totalPages >= 3
  /\ Len(resp.second.data) = 2
  /\ resp.second.data = resp.first.data

(***************************************************************************)
(* The feed and the writes of other requests                               *)
(***************************************************************************)
IsRacing == resp.op = "discoveryRacing"

\* C23: the page of a discovery request has at most pagination.total posts
\* and every returned post is among the posts counted in total, also when a
\* post is created or deleted by another request while it runs
C23_PageWithinTotal ==
  IsFeed \/ IsRacing =>
    /\ Len(resp.data) <= resp.pagination.total
    /\ \A i \in 1..Len(resp.data) :
         resp.data[i].id \in EligiblePosts(resp.req.userId)

\* C23 for a request that runs alone: the page is within the total
C23_PageWithinTotalAlone ==
  IsFeed =>
    /\ Len(resp.data) <= resp.pagination.total
    /\ \A i \in 1..Len(resp.data) :
         resp.data[i].id \in EligiblePosts(resp.req.userId)

(***************************************************************************)
(* The home feed                                                           *)
(***************************************************************************)
IsHomeAndDiscovery == resp.op = "homeAndDiscovery"

\* C24: on the same store and for the same viewer, no post is returned by
\* both the home feed and the discovery feed
C24_HomeAndDiscoveryDisjoint ==
  IsHomeAndDiscovery =>
    PageIds(resp.home.data) \cap PageIds(resp.discovery.data) = {}

\* C24 witness: both feeds return a post, the viewer following one of two
\* authors who have posts
C24_Witness ==
  /\ IsHomeAndDiscovery
  /\ resp.home.data # <<>>
  /\ resp.discovery.data # <<>>
  /\ \E p \in DOMAIN posts : posts[p].userId = resp.home.req.userId

(***************************************************************************)
(* The follow graph and the cascade                                        *)
(***************************************************************************)
\* no entry stands twice in a list
NoRepeat(l) == \A i, j \in 1..Len(l) : l[i] = l[j] => i = j

\* C25: B is in A's following list exactly if A is in B's followers list,
\* both lists hold stored users only and none of them holds a user twice
C25_FollowGraphSymmetric ==
  \A A \in DOMAIN users :
    /\ NoRepeat(users[A].following)
    /\ NoRepeat(users[A].followers)
    /\ Range(users[A].following) \cup Range(users[A].followers) \subseteq DOMAIN users
    /\ \A B \in DOMAIN users :
         B \in Range(users[A].following) <=> A \in Range(users[B].followers)

\* C25 witness: an unfollow has been answered and a follow edge of the other
\* direction is still stored
C25_Witness ==
  /\ resp.op = "unfollow"
  /\ resp.status = 200
  /\ \E A, B \in DOMAIN users :
       /\ B \in Range(users[A].following)
       /\ A \in Range(users[B].followers)
       /\ A \notin Range(users[B].following)

\* C26: a follow request whose follower is the target, whose follower
\* already follows the target, or one of whose users is not stored is
\* answered with its error and changes no following or followers list
C26_RejectedFollowChangesNothing ==
  [][resp'.op = "follow" /\ resp.op # "follow" =>
       LET f == resp'.req.followerId
           t == resp'.req.targetUserId
           stored == f # t /\ ViewerStored(f) /\ ViewerStored(t)
           following ==
             stored /\ \E A, B \in DOMAIN users :
                         /\ users[A].id = f
                         /\ users[B].id = t
                         /\ B \in Range(users[A].following)
       IN  /\ f = t => resp'.status = 400 /\ resp'.message = "Cannot follow yourself"
           /\ following =>
                resp'.status = 400 /\ resp'.message = "Already following this user"
           /\ f # t /\ ~stored =>
                resp'.status = 404 /\ resp'.message = "User not found"
           /\ f = t \/ following \/ ~stored => users' = users
           /\ resp'.status # 200 => users' = users]_vars

\* C26 witness: a second follow of the same target has been rejected and
\* the one edge is stored once
C26_Witness ==
  /\ resp.op = "follow"
  /\ resp.status = 400
  /\ resp.message = "Already following this user"
  /\ \E A, B \in DOMAIN users :
       /\ users[A].id = resp.req.followerId
       /\ users[B].id = resp.req.targetUserId
       /\ users[A].following = <<B>>
       /\ users[B].followers = <<A>>

(***************************************************************************)
(* Likes                                                                   *)
(***************************************************************************)
\* C27: for every stored post, likeCount is the number of entries of likes
\* and likes holds no user id twice
C27_LikeCountIsLikes ==
  \A p \in DOMAIN posts :
    /\ posts[p].likeCount = Len(posts[p].likes)
    /\ NoRepeat(posts[p].likes)

\* C27 from the first like or unlike of a post on: likeCount differs from the
\* number of likes only on a post that has no likes and still has the
\* likeCount of its create request
C27_LikeCountIsLikesOnceLiked ==
  \A p \in DOMAIN posts :
    /\ NoRepeat(posts[p].likes)
    /\ \/ posts[p].likeCount = Len(posts[p].likes)
       \/ posts[p].likes = <<>> /\ posts[p].likeCount \in LikeCountArgs

\* the number of entries of l that are x
CountOf(l, x) == Cardinality({i \in 1..Len(l) : l[i] = x})

\* C28: when two like requests of a user who has not liked the post have
\* both been answered, the user is once in likes, likeCount is one more than
\* before and at most one of the two has answered 200
C28_ConcurrentLikesCountOnce ==
  /\ resp.op = "likeTwice"
  /\ \A i \in {1, 2} : resp.reqs[i].pc = "done"
  /\ resp.reqs[1].userId \notin Range(resp.before.likes)
  => /\ CountOf(posts[resp.reqs[1].postId].likes, resp.reqs[1].userId) = 1
     /\ posts[resp.reqs[1].postId].likeCount = resp.before.likeCount + 1
     /\ ~(resp.reqs[1].status = 200 /\ resp.reqs[2].status = 200)

\* C28 when the second request reads the post after the first has saved, on
\* a post whose likeCount was its number of likes: the second is answered
\* 'Post already liked' and the post has the like once
C28_SecondRejectedAfterSave ==
  /\ resp.op = "likeTwice"
  /\ \A i \in {1, 2} : resp.reqs[i].pc = "done"
  /\ resp.reqs[1].userId \notin Range(resp.before.likes)
  /\ resp.before.likeCount = Len(resp.before.likes)
  /\ \E i \in {1, 2} : resp.reqs[i].status = 400
  => /\ CountOf(posts[resp.reqs[1].postId].likes, resp.reqs[1].userId) = 1
     /\ posts[resp.reqs[1].postId].likeCount = resp.before.likeCount + 1
     /\ \E i \in {1, 2} : resp.reqs[i].status = 200

\* C29: when a delete-user request for a stored user has been answered, no
\* stored post has that user as author and no stored user has that user in
\* its following or followers list
C29_DeleteUserCascades ==
  [][resp'.op = "deleteUser" /\ resp'.status = 200 /\ resp.op # "deleteUser" =>
       \E d \in DOMAIN users \ DOMAIN users' :
         /\ DOMAIN users' = DOMAIN users \ {d}
         /\ \A p \in DOMAIN posts' : posts'[p].userId # users[d].id
         /\ \A o \in DOMAIN users' :
              d \notin Range(users'[o].following) \cup Range(users'[o].followers)]_vars

\* C29 witness: a user has been deleted; of the two posts created one is
\* left, by another author, and the user who is left has no follow edge
C29_Witness ==
  /\ resp.op = "deleteUser"
  /\ resp.status = 200
  /\ nextPid = 3
  /\ Cardinality(DOMAIN posts) = 1
  /\ Cardinality(DOMAIN users) = 1
  /\ \A o \in DOMAIN users :
       /\ users[o].following = <<>>
       /\ users[o].followers = <<>>
       /\ \A p \in DOMAIN posts : posts[p].userId = users[o].id

\* a step that answers a delete-post request
IsDeletePost == resp'.op = "deletePost" /\ resp.op # "deletePost"

\* the request named a user who is not the author of the stored post
ByNonAuthor(req) ==
  /\ req.postId \in DOMAIN posts
  /\ posts[req.postId].userId # req.userId

\* the 404 answer that leaves the store alone
RejectedUnowned ==
  /\ resp'.status = 404
  /\ resp'.message = "Post not found or not owned by user"
  /\ posts' = posts
  /\ users' = users

\* a delete-post request removes at most its post, and only for the author
OnlyAuthorRemoves(req) ==
  /\ \A p \in DOMAIN posts \ DOMAIN posts' :
       p = req.postId /\ posts[p].userId = req.userId
  /\ \A p \in DOMAIN posts' : p \in DOMAIN posts /\ posts'[p] = posts[p]

\* C30 as stated: a delete-post request whose userId is not the author of the
\* post is answered 404 'Post not found or not owned by user' and changes
\* nothing, and only the author's request removes the post
C30_NonAuthorDeleteRejected ==
  [][IsDeletePost =>
       /\ ByNonAuthor(resp'.req) => RejectedUnowned
       /\ OnlyAuthorRemoves(resp'.req)]_vars

\* C30 amended: a delete-post request with a non-empty userId that is not the
\* author of the post is answered 404 'Post not found or not owned by user'
\* and changes nothing, and only the author's request removes the post
C30_NamedNonAuthorDeleteRejected ==
  [][IsDeletePost =>
       /\ (ByNonAuthor(resp'.req) /\ resp'.req.userId # "") => RejectedUnowned
       /\ OnlyAuthorRemoves(resp'.req)]_vars

\* C30 witness: a liked post of b is still stored, in b's posts list, after
\* a's delete-post request for it was answered 404
C30_Witness ==
  /\ resp.op = "deletePost"
  /\ resp.status = 404
  /\ resp.req.userId = "a"
  /\ resp.req.postId \in DOMAIN posts
  /\ posts[resp.req.postId].userId = "b"
  /\ posts[resp.req.postId].likes # <<>>
  /\ \E o \in DOMAIN users :
       users[o].id = "b" /\ resp.req.postId \in Range(users[o].posts)

====
